---- MODULE Spec2Model ----
(***************************************************************************)
(* Cosmetic Ingredient Scanner: the request handlers of backend/main.py    *)
(* (GET /cosmetics/analyze over the local catalog, GET /analyze over the   *)
(* Open Food Facts catalog) and the enrichment client of                   *)
(* backend/openai_client.py.                                               *)
(*                                                                         *)
(* A handler is a coroutine: one action per stretch of code between two    *)
(* await points.  The outcome of an outbound call (catalog fetch, chat     *)
(* completion) is chosen by the environment when the call completes.       *)
(***************************************************************************)
EXTENDS Integers, Sequences, FiniteSets, TLC

VARIABLES
    \* lookup_ingredient called on its own
    inci_name, lookup_ret, lookup_pc,
    \* fallback_overall called on its own
    score_items, score_ret, score_pc,
    \* openai_client: the module global and one call of an enrichment function
    client, fn_name, fn_arg, fn_pc, fn_reply, fn_ret,
    \* GET /cosmetics/analyze: one request
    barcode, pc, product, idx, ingredients, lookups, calls, call_results, status, body,
    \* GET /analyze: one request
    r_barcode, r_pc, r_fetches, r_upstream, r_enrich_calls, r_outcome, r_status, r_body

lookupVars == <<inci_name, lookup_ret, lookup_pc>>
scoreVars == <<score_items, score_ret, score_pc>>
clientVars == <<fn_name, fn_arg, fn_pc, fn_reply, fn_ret>>
requestVars ==
    <<barcode, pc, product, idx, ingredients, lookups, calls, call_results, status, body>>
remoteVars ==
    <<r_barcode, r_pc, r_fetches, r_upstream, r_enrich_calls, r_outcome, r_status, r_body>>
vars == <<lookupVars, scoreVars, client, clientVars, requestVars, remoteVars>>

----------------------------------------------------------------------------
\* Bounds of the inputs

\* longest raw ingredient name handed to lookup_ingredient
MaxNameLen == 5
\* longest ingredient list handed to fallback_overall
MaxIngredients == 5

----------------------------------------------------------------------------
\* Python values

\* None, where a str is expected
None == "<None>"
\* None, where a dict is expected: falsy, as the empty dict is
NoneDict == <<>>

\* dict.get(key, default)
DictGet(d, key, default) ==
    IF key \in DOMAIN d THEN d[key] ELSE default

\* a str held as a sequence of characters, as the text it denotes
RECURSIVE Text(_)
Text(chars) ==
    IF chars = <<>> THEN "" ELSE Head(chars) \o Text(Tail(chars))

\* sep.join(items)
RECURSIVE str_join(_, _)
str_join(sep, items) ==
    IF items = <<>> THEN ""
    ELSE IF Len(items) = 1 THEN Head(items)
    ELSE Head(items) \o sep \o str_join(sep, Tail(items))

LowerLetters ==
    <<"a", "b", "c", "d", "e", "f", "g", "h", "i", "j", "k", "l", "m",
      "n", "o", "p", "q", "r", "s", "t", "u", "v", "w", "x", "y", "z">>
UpperLetters ==
    <<"A", "B", "C", "D", "E", "F", "G", "H", "I", "J", "K", "L", "M",
      "N", "O", "P", "Q", "R", "S", "T", "U", "V", "W", "X", "Y", "Z">>
Whitespace ==
    {" ", "\t", "\n", "\r", "\f"}

char_upper(c) ==
    IF \E i \in 1..Len(LowerLetters) : LowerLetters[i] = c
    THEN UpperLetters[CHOOSE i \in 1..Len(LowerLetters) : LowerLetters[i] = c]
    ELSE c
char_lower(c) ==
    IF \E i \in 1..Len(UpperLetters) : UpperLetters[i] = c
    THEN LowerLetters[CHOOSE i \in 1..Len(UpperLetters) : UpperLetters[i] = c]
    ELSE c

\* str.upper(), str.lower()
str_upper(s) ==
    [i \in 1..Len(s) |-> char_upper(s[i])]
str_lower(s) ==
    [i \in 1..Len(s) |-> char_lower(s[i])]

\* str.strip(): leading and trailing whitespace removed
RECURSIVE str_lstrip(_)
str_lstrip(s) ==
    IF s # <<>> /\ Head(s) \in Whitespace THEN str_lstrip(Tail(s)) ELSE s
RECURSIVE str_rstrip(_)
str_rstrip(s) ==
    IF s # <<>> /\ s[Len(s)] \in Whitespace
    THEN str_rstrip(SubSeq(s, 1, Len(s) - 1)) ELSE s
str_strip(s) ==
    str_rstrip(str_lstrip(s))

----------------------------------------------------------------------------
\* main.py: the tables

\* Ingredient identifiers and risk levels are Python strings the code transforms
\* character by character (strip, upper, lower): they are sequences of
\* one-character strings.
INCI_AQUA ==
    <<"A", "Q", "U", "A">>
INCI_GLYCERIN ==
    <<"G", "L", "Y", "C", "E", "R", "I", "N">>
INCI_CETYL_ALCOHOL ==
    <<"C", "E", "T", "Y", "L", " ", "A", "L", "C", "O", "H", "O", "L">>
INCI_PARFUM ==
    <<"P", "A", "R", "F", "U", "M">>
INCI_PHENOXYETHANOL ==
    <<"P", "H", "E", "N", "O", "X", "Y", "E", "T", "H", "A", "N", "O", "L">>
INCI_C12_15_ALKYL_BENZOATE ==
    <<"C", "1", "2", "-", "1", "5", " ", "A", "L", "K", "Y", "L", " ", "B", "E", "N", "Z", "O", "A", "T", "E">>
INCI_ETHYLHEXYL_METHOXYCINNAMATE ==
    <<"E", "T", "H", "Y", "L", "H", "E", "X", "Y", "L", " ", "M", "E", "T", "H", "O", "X", "Y", "C", "I", "N", "N", "A", "M", "A", "T", "E">>
INCI_TITANIUM_DIOXIDE ==
    <<"T", "I", "T", "A", "N", "I", "U", "M", " ", "D", "I", "O", "X", "I", "D", "E">>
INCI_CAPRYLIC_CAPRIC_TRIGLYCERIDE ==
    <<"C", "A", "P", "R", "Y", "L", "I", "C", "/", "C", "A", "P", "R", "I", "C", " ", "T", "R", "I", "G", "L", "Y", "C", "E", "R", "I", "D", "E">>
INCI_NIACINAMIDE ==
    <<"N", "I", "A", "C", "I", "N", "A", "M", "I", "D", "E">>
RISK_LOW ==
    <<"l", "o", "w">>
RISK_MEDIUM ==
    <<"m", "e", "d", "i", "u", "m">>
RISK_HIGH ==
    <<"h", "i", "g", "h">>
RISK_UNKNOWN ==
    <<"u", "n", "k", "n", "o", "w", "n">>

\* main.py:50-111
INGREDIENT_DB ==
    (INCI_AQUA :> [function |-> "solvent", origin |-> "mineral",
        risk_level |-> RISK_LOW, concerns |-> <<>>])
    @@
    (INCI_GLYCERIN :> [function |-> "humectant", origin |-> "plant-based",
        risk_level |-> RISK_LOW, concerns |-> <<>>])
    @@
    (INCI_CETYL_ALCOHOL :> [function |-> "emollient", origin |-> "plant-based",
        risk_level |-> RISK_LOW, concerns |-> <<"generally well-tolerated fatty alcohol">>])
    @@
    (INCI_PARFUM :> [function |-> "fragrance", origin |-> "synthetic",
        risk_level |-> RISK_MEDIUM, concerns |-> <<"fragrance allergens", "potential irritation">>])
    @@
    (INCI_PHENOXYETHANOL :> [function |-> "preservative", origin |-> "synthetic",
        risk_level |-> RISK_MEDIUM, concerns |-> <<"may irritate sensitive skin at higher levels">>])
    @@
    (INCI_C12_15_ALKYL_BENZOATE :> [function |-> "emollient", origin |-> "synthetic",
        risk_level |-> RISK_LOW, concerns |-> <<>>])
    @@
    (INCI_ETHYLHEXYL_METHOXYCINNAMATE :> [function |-> "UV filter", origin |-> "synthetic",
        risk_level |-> RISK_MEDIUM, concerns |-> <<"possible photoallergy in sensitive individuals">>])
    @@
    (INCI_TITANIUM_DIOXIDE :> [function |-> "UV filter", origin |-> "mineral",
        risk_level |-> RISK_LOW, concerns |-> <<"avoid inhalation of loose powders">>])
    @@
    (INCI_CAPRYLIC_CAPRIC_TRIGLYCERIDE :> [function |-> "emollient", origin |-> "plant-based",
        risk_level |-> RISK_LOW, concerns |-> <<>>])
    @@
    (INCI_NIACINAMIDE :> [function |-> "skin conditioning", origin |-> "synthetic",
        risk_level |-> RISK_LOW, concerns |-> <<"rare flushing in very high concentrations">>])

\* main.py:18-48
PRODUCT_CATALOG ==
    ("4005900889089" :> [product_name |-> "Gentle Daily Moisturizer",
        ingredients_inci |-> <<INCI_AQUA, INCI_GLYCERIN, INCI_CETYL_ALCOHOL, INCI_PARFUM, INCI_PHENOXYETHANOL>>])
    @@
    ("3606000430150" :> [product_name |-> "SPF 50 Face Sunscreen",
        ingredients_inci |-> <<INCI_AQUA, INCI_C12_15_ALKYL_BENZOATE, INCI_ETHYLHEXYL_METHOXYCINNAMATE, INCI_TITANIUM_DIOXIDE, INCI_PARFUM>>])
    @@
    ("5012000000001" :> [product_name |-> "Soothing Night Cream",
        ingredients_inci |-> <<INCI_AQUA, INCI_CAPRYLIC_CAPRIC_TRIGLYCERIDE, INCI_NIACINAMIDE, INCI_PARFUM>>])

DISCLAIMER_TEXT ==
    "This analysis is informational only and not medical advice."

----------------------------------------------------------------------------
\* main.py: the pure functions

normalize_inci(name) ==
    str_upper(str_strip(name))

\* Variant: a lookup that falls back on a product (C2 must tell it apart)
lookup_product_or_first(code) ==
    DictGet(PRODUCT_CATALOG, code, PRODUCT_CATALOG["4005900889089"])

lookup_product_by_barcode(code) ==
    DictGet(PRODUCT_CATALOG, code, NoneDict)

\* the record of a name that is no key of INGREDIENT_DB
unknown_info(normalized) ==
    [inci_name |-> normalized, function |-> "unknown", origin |-> None,
     risk_level |-> RISK_UNKNOWN, concerns |-> <<"Not found in knowledge base">>]

\* Variant: lookup_ingredient without strip() (C7 must tell it apart)
lookup_ingredient_nostrip(raw) ==
    LET normalized == str_upper(raw)
    IN IF normalized \in DOMAIN INGREDIENT_DB /\ DOMAIN INGREDIENT_DB[normalized] # {}
       THEN LET base_info == INGREDIENT_DB[normalized]
            IN [inci_name |-> normalized,
                function |-> DictGet(base_info, "function", "unknown"),
                origin |-> DictGet(base_info, "origin", None),
                risk_level |-> DictGet(base_info, "risk_level", RISK_UNKNOWN),
                concerns |-> DictGet(base_info, "concerns", <<>>)]
       ELSE unknown_info(normalized)

\* `if base_info:` is false for a missing key (None) and for an empty dict
lookup_ingredient(raw) ==
    LET normalized == normalize_inci(raw)
    IN IF normalized \in DOMAIN INGREDIENT_DB /\ DOMAIN INGREDIENT_DB[normalized] # {}
       THEN LET base_info == INGREDIENT_DB[normalized]
            IN [inci_name |-> normalized,
                function |-> DictGet(base_info, "function", "unknown"),
                origin |-> DictGet(base_info, "origin", None),
                risk_level |-> DictGet(base_info, "risk_level", RISK_UNKNOWN),
                concerns |-> DictGet(base_info, "concerns", <<>>)]
       ELSE unknown_info(normalized)

fallback_summary(base_info) ==
    LET inci == DictGet(base_info, "inci_name", <<"I", "n", "g", "r", "e", "d", "i", "e", "n", "t">>)
        risk == DictGet(base_info, "risk_level", RISK_UNKNOWN)
        concerns == DictGet(base_info, "concerns", <<>>)
        concerns_text == IF concerns # <<>> THEN str_join("; ", concerns)
                         ELSE "No notable concerns recorded."
    IN Text(inci) \o " is labeled " \o Text(risk) \o " risk. " \o concerns_text

risk_map ==
    (RISK_HIGH :> 3) @@ (RISK_MEDIUM :> 2) @@ (RISK_LOW :> 1) @@ (RISK_UNKNOWN :> 2)

\* sum(risk_map.get(item.riskLevel.lower(), 2) for item in ingredients)
RECURSIVE risk_sum(_)
risk_sum(items) ==
    IF items = <<>> THEN 0
    ELSE DictGet(risk_map, str_lower(Head(items).riskLevel), 2) + risk_sum(Tail(items))

\* avg_score is the float total / n, compared with the literals 2.5 and 1.8.
\* Float division is correctly rounded and n is far below 2^50, so
\* avg_score >= 2.5 is 2 * total >= 5 * n and avg_score >= 1.8 is
\* 5 * total >= 9 * n (total / n = 9/5 rounds to the double the literal 1.8 is).
\* Variant: both thresholds exclusive (C4 must tell it apart)
fallback_overall_strict(items) ==
    IF items = <<>>
    THEN [overallScore |-> "B", overallSummary |-> "No ingredients provided for scoring."]
    ELSE LET total == risk_sum(items)
             n == Len(items)
         IN IF 2 * total > 5 * n
            THEN [overallScore |-> "C",
                  overallSummary |-> "Contains ingredients that may warrant caution for sensitive skin."]
            ELSE IF 5 * total > 9 * n
            THEN [overallScore |-> "B",
                  overallSummary |-> "Generally moderate profile with some potential irritants."]
            ELSE [overallScore |-> "A",
                  overallSummary |-> "Low-risk profile based on known ingredients."]

fallback_overall(items) ==
    IF items = <<>>
    THEN [overallScore |-> "B", overallSummary |-> "No ingredients provided for scoring."]
    ELSE LET total == risk_sum(items)
             n == Len(items)
         IN IF 2 * total >= 5 * n
            THEN [overallScore |-> "C",
                  overallSummary |-> "Contains ingredients that may warrant caution for sensitive skin."]
            ELSE IF 5 * total >= 9 * n
            THEN [overallScore |-> "B",
                  overallSummary |-> "Generally moderate profile with some potential irritants."]
            ELSE [overallScore |-> "A",
                  overallSummary |-> "Low-risk profile based on known ingredients."]

----------------------------------------------------------------------------
\* lookup_ingredient and fallback_overall, each called on its own

LookupAlphabet ==
    {" ", "a", "A", "q", "Q", "u", "U"}
RawNames ==
    UNION {[1..n -> LookupAlphabet] : n \in 0..MaxNameLen}

\* the four documented risk levels and one spelt in another case
ScoreLevels ==
    {RISK_LOW, RISK_MEDIUM, RISK_HIGH, RISK_UNKNOWN, <<"H", "i", "g", "h">>}
ScoreLists ==
    UNION {[1..n -> [riskLevel : ScoreLevels]] : n \in 0..MaxIngredients}

LookupIdle ==
    inci_name = <<>> /\ lookup_ret = <<>> /\ lookup_pc = "idle"
ScoreIdle ==
    score_items = <<>> /\ score_ret = <<>> /\ score_pc = "idle"

LookupCall ==
    /\ lookup_pc = "call"
    /\ lookup_ret' = lookup_ingredient(inci_name)
    /\ lookup_pc' = "returned"
    /\ UNCHANGED <<inci_name, scoreVars, client, clientVars, requestVars, remoteVars>>

ScoreCall ==
    /\ score_pc = "call"
    /\ score_ret' = fallback_overall(score_items)
    /\ score_pc' = "returned"
    /\ UNCHANGED <<score_items, lookupVars, client, clientVars, requestVars, remoteVars>>

----------------------------------------------------------------------------
\* openai_client.py

\* a JSON value the model may put in a field, with str() of its parsed form
JsonStr(text) ==
    [t |-> "string", py_str |-> text]
JsonNumber7 ==
    [t |-> "number", py_str |-> "7"]
JsonNull ==
    [t |-> "null", py_str |-> "None"]

\* str(value)
str(value) ==
    value.py_str

\* What `await client.chat.completions.create(...)` does: it raises (network,
\* auth, quota), or returns a message whose content is None or "", text that
\* is no JSON, a JSON document that is no object, or a JSON object.
ReplyRaises ==
    [kind |-> "raises", object |-> <<>>]
ReplyEmpty ==
    [kind |-> "empty", object |-> <<>>]
ReplyNotJson ==
    [kind |-> "not_json", object |-> <<>>]
ReplyJsonArray ==
    [kind |-> "json_array", object |-> <<>>]
ReplyObject(obj) ==
    [kind |-> "json_object", object |-> obj]

\* the JSON objects: every subset of the fields the prompt asks for
Objects(fields, values) ==
    UNION {[keys -> values] : keys \in SUBSET fields}

IngredientReplies ==
    {ReplyRaises, ReplyEmpty, ReplyNotJson, ReplyJsonArray}
    \cup {ReplyObject(o) : o \in Objects({"summary"},
            {JsonStr("A mild, widely used ingredient."), JsonNumber7, JsonNull})}

ScoreValues ==
    {JsonStr("A"), JsonStr("B"), JsonStr("C"), JsonStr("D"), JsonStr("E"),
     JsonNumber7, JsonNull}
ProductReplies ==
    {ReplyRaises, ReplyEmpty, ReplyNotJson, ReplyJsonArray}
    \cup {ReplyObject(o) : o \in
            UNION {{s @@ t : s \in Objects({"overallScore"}, ScoreValues)} :
                   t \in Objects({"overallSummary"}, {JsonStr("Suitable for most skin types.")})}}

\* how a call of a function ends
Returns(value) ==
    [how |-> "returns", status_code |-> 0, detail |-> "", value |-> value]
HTTPException(status_code, detail) ==
    [how |-> "HTTPException", status_code |-> status_code, detail |-> detail, value |-> <<>>]
\* an exception that is no HTTPException
Raises(exc) ==
    [how |-> "raises", status_code |-> 0, detail |-> exc, value |-> <<>>]

\* Variant: the handler takes enrichment for configured (C3 must tell it apart)
is_openai_configured_always ==
    TRUE
is_openai_configured ==
    client

\* _require_client: the exception it raises, or no exception
require_client_passes ==
    client
require_client_error ==
    HTTPException(500, "OPENAI_API_KEY is not configured.")

\* summarize_ingredient from the completion of its call on
\* Variant: a failed call reported as 500 (C8 must tell it apart)
summarize_ingredient_all_500(reply) ==
    IF reply.kind = "raises"
    THEN HTTPException(500, "OpenAI ingredient summary failed.")
    ELSE IF reply.kind = "empty"
    THEN HTTPException(500, "Empty response from OpenAI.")
    ELSE IF reply.kind = "not_json"
    THEN HTTPException(500, "Failed to parse OpenAI ingredient summary.")
    ELSE IF reply.kind = "json_array"
    THEN Raises("AttributeError")
    ELSE Returns(str(DictGet(reply.object, "summary", JsonStr("No summary provided."))))

summarize_ingredient_result(reply) ==
    IF reply.kind = "raises"
    THEN HTTPException(502, "OpenAI ingredient summary failed.")
    ELSE IF reply.kind = "empty"
    THEN HTTPException(500, "Empty response from OpenAI.")
    ELSE IF reply.kind = "not_json"
    THEN HTTPException(500, "Failed to parse OpenAI ingredient summary.")
    ELSE IF reply.kind = "json_array"
    THEN Raises("AttributeError")
    ELSE Returns(str(DictGet(reply.object, "summary", JsonStr("No summary provided."))))

\* summarize_product from the completion of its call on
summarize_product_result(reply) ==
    IF reply.kind = "raises"
    THEN HTTPException(502, "OpenAI product summary failed.")
    ELSE IF reply.kind = "empty"
    THEN HTTPException(500, "Empty response from OpenAI.")
    ELSE IF reply.kind = "not_json"
    THEN HTTPException(500, "Failed to parse OpenAI product summary.")
    ELSE IF reply.kind = "json_array"
    THEN Raises("AttributeError")
    ELSE Returns([overallScore |-> str(DictGet(reply.object, "overallScore", JsonStr("B"))),
                  overallSummary |-> str(DictGet(reply.object, "overallSummary",
                      JsonStr("General cosmetic profile with no specific medical claims.")))])

\* One call of summarize_ingredient or summarize_product, whatever the caller
FnNames ==
    {"summarize_ingredient", "summarize_product"}
FnArgs(name) ==
    IF name = "summarize_ingredient"
    THEN {Text(k) : k \in DOMAIN INGREDIENT_DB}
    ELSE {PRODUCT_CATALOG[b].product_name : b \in DOMAIN PRODUCT_CATALOG}
FnReplies(name) ==
    IF name = "summarize_ingredient" THEN IngredientReplies ELSE ProductReplies
FnResult(name, reply) ==
    IF name = "summarize_ingredient" THEN summarize_ingredient_result(reply)
    ELSE summarize_product_result(reply)

\* entry to the function: _require_client, then the call is sent
FnEnter ==
    /\ fn_pc = "entry"
    /\ IF require_client_passes
       THEN fn_pc' = "awaiting" /\ fn_ret' = fn_ret
       ELSE fn_pc' = "done" /\ fn_ret' = require_client_error
    /\ UNCHANGED <<fn_name, fn_arg, fn_reply, client,
                   lookupVars, scoreVars, requestVars, remoteVars>>

\* the call completes and the function runs to its end
FnComplete(reply) ==
    /\ fn_pc = "awaiting"
    /\ fn_reply' = reply
    /\ fn_ret' = FnResult(fn_name, reply)
    /\ fn_pc' = "done"
    /\ UNCHANGED <<fn_name, fn_arg, client,
                   lookupVars, scoreVars, requestVars, remoteVars>>

----------------------------------------------------------------------------
\* main.py: GET /cosmetics/analyze

\* the barcodes asked for: those of the catalog and two it does not hold
Barcodes ==
    DOMAIN PRODUCT_CATALOG \cup {"0000000000000", ""}

\* list.append, as a value
\* Variant: the annotation put first (C1 must tell it apart)
list_append_front(list, item) ==
    <<item>> \o list
list_append(list, item) ==
    Append(list, item)

\* the IngredientRisk built at main.py:206-213
IngredientRisk(inci, base_info, ai_summary) ==
    [inciName |-> DictGet(base_info, "inci_name", inci),
     function |-> DictGet(base_info, "function", "unknown"),
     origin |-> DictGet(base_info, "origin", None),
     riskLevel |-> DictGet(base_info, "risk_level", RISK_UNKNOWN),
     concerns |-> DictGet(base_info, "concerns", <<>>),
     aiSummary |-> ai_summary]

\* the ProductAnalysisResponse built at main.py:228-235
ProductAnalysisResponse(overall_score, overall_summary) ==
    [productName |-> DictGet(product, "product_name", "Unknown product"),
     barcode |-> barcode,
     ingredients |-> ingredients,
     overallScore |-> overall_score,
     overallSummary |-> overall_summary,
     disclaimer |-> DISCLAIMER_TEXT]

\* the body of an error response
ErrorBody(detail) ==
    [detail |-> detail]

\* the ingredient list the loop iterates over, and the ingredient it is at
ingredients_inci ==
    DictGet(product, "ingredients_inci", <<>>)
inci ==
    ingredients_inci[idx]

\* the outbound chat-completion requests, by what the prompt is about
IngredientCall(name) ==
    [fn |-> "summarize_ingredient", about |-> Text(name), ingredient_list |-> ""]
ProductCall(product_name, items) ==
    [fn |-> "summarize_product", about |-> product_name,
     ingredient_list |-> str_join(", ", [i \in 1..Len(items) |-> Text(items[i].inciName)])]

\* the response to a request whose handler raised: an HTTPException is
\* answered with its status, any other exception with 500
Fails(outcome) ==
    /\ status' = IF outcome.how = "HTTPException" THEN outcome.status_code ELSE 500
    /\ body' = ErrorBody(IF outcome.how = "HTTPException" THEN outcome.detail
                         ELSE "Internal Server Error")
    /\ pc' = "done"

\* main.py:193-197
ResolveProduct ==
    /\ pc = "start"
    /\ product' = lookup_product_by_barcode(barcode)
    /\ IF DOMAIN product' = {}
       THEN /\ Fails(HTTPException(404, "Product not found in cosmetics catalog."))
            /\ UNCHANGED <<idx, ingredients>>
       ELSE /\ ingredients' = <<>>
            /\ idx' = 1
            /\ pc' = "loop"
            /\ UNCHANGED <<status, body>>
    /\ UNCHANGED <<barcode, lookups, calls, call_results, client,
                   lookupVars, scoreVars, clientVars, remoteVars>>

\* main.py:198-214, one iteration with enrichment unconfigured
IngredientFallback ==
    /\ pc = "loop"
    /\ idx <= Len(ingredients_inci)
    /\ ~is_openai_configured
    /\ LET base_info == lookup_ingredient(inci)
           ai_summary == fallback_summary(base_info)
       IN ingredients' = list_append(ingredients, IngredientRisk(inci, base_info, ai_summary))
    /\ lookups' = lookups + 1
    /\ idx' = idx + 1
    /\ UNCHANGED <<barcode, pc, product, calls, call_results, status, body, client,
                   lookupVars, scoreVars, clientVars, remoteVars>>

\* main.py:198-203 and openai_client.py:22-28: one iteration up to the await
IngredientCallIssue ==
    /\ pc = "loop"
    /\ idx <= Len(ingredients_inci)
    /\ is_openai_configured
    /\ lookups' = lookups + 1
    /\ IF require_client_passes
       THEN /\ calls' = Append(calls, IngredientCall(inci))
            /\ pc' = "await_ingredient"
            /\ UNCHANGED <<status, body>>
       ELSE /\ Fails(require_client_error)
            /\ UNCHANGED calls
    /\ UNCHANGED <<barcode, product, idx, ingredients, call_results, client,
                   lookupVars, scoreVars, clientVars, remoteVars>>

\* Variant: a failed ingredient call is sent again (C10 must tell it apart)
IngredientCallComplete_retry(reply) ==
    /\ pc = "await_ingredient"
    /\ LET base_info == lookup_ingredient(inci)
           outcome == summarize_ingredient_result(reply)
       IN /\ call_results' = Append(call_results, outcome)
          /\ IF outcome.how = "returns"
             THEN /\ ingredients' = list_append(ingredients,
                                        IngredientRisk(inci, base_info, outcome.value))
                  /\ idx' = idx + 1
             ELSE UNCHANGED <<idx, ingredients>>
          /\ pc' = "loop"
          /\ UNCHANGED <<status, body>>
    /\ UNCHANGED <<barcode, product, lookups, calls, client,
                   lookupVars, scoreVars, clientVars, remoteVars>>

\* openai_client.py:55-66 and main.py:205-214: the call completes, the
\* iteration ends
IngredientCallComplete(reply) ==
    /\ pc = "await_ingredient"
    /\ LET base_info == lookup_ingredient(inci)
           outcome == summarize_ingredient_result(reply)
       IN /\ call_results' = Append(call_results, outcome)
          /\ IF outcome.how = "returns"
             THEN /\ ingredients' = list_append(ingredients,
                                        IngredientRisk(inci, base_info, outcome.value))
                  /\ idx' = idx + 1
                  /\ pc' = "loop"
                  /\ UNCHANGED <<status, body>>
             ELSE /\ Fails(outcome)
                  /\ UNCHANGED <<idx, ingredients>>
    /\ UNCHANGED <<barcode, product, lookups, calls, client,
                   lookupVars, scoreVars, clientVars, remoteVars>>

\* main.py:216, 223-235: the loop is over, enrichment unconfigured
OverallFallback ==
    /\ pc = "loop"
    /\ idx > Len(ingredients_inci)
    /\ ~is_openai_configured
    /\ LET fallback == fallback_overall(ingredients)
       IN body' = ProductAnalysisResponse(fallback.overallScore, fallback.overallSummary)
    /\ status' = 200
    /\ pc' = "done"
    /\ UNCHANGED <<barcode, product, idx, ingredients, lookups, calls, call_results, client,
                   lookupVars, scoreVars, clientVars, remoteVars>>

\* main.py:216-220 and openai_client.py:69-73: the loop is over, up to the await
ProductCallIssue ==
    /\ pc = "loop"
    /\ idx > Len(ingredients_inci)
    /\ is_openai_configured
    /\ IF require_client_passes
       THEN /\ calls' = Append(calls, ProductCall(
                    DictGet(product, "product_name", "Unknown product"), ingredients))
            /\ pc' = "await_product"
            /\ UNCHANGED <<status, body>>
       ELSE /\ Fails(require_client_error)
            /\ UNCHANGED calls
    /\ UNCHANGED <<barcode, product, idx, ingredients, lookups, call_results, client,
                   lookupVars, scoreVars, clientVars, remoteVars>>

\* openai_client.py:96-115 and main.py:221-235: the call completes, the
\* response is built
ProductCallComplete(reply) ==
    /\ pc = "await_product"
    /\ LET outcome == summarize_product_result(reply)
       IN /\ call_results' = Append(call_results, outcome)
          /\ IF outcome.how = "returns"
             THEN /\ body' = ProductAnalysisResponse(
                        DictGet(outcome.value, "overallScore", "B"),
                        DictGet(outcome.value, "overallSummary", "Moderate risk profile."))
                  /\ status' = 200
                  /\ pc' = "done"
             ELSE Fails(outcome)
    /\ UNCHANGED <<barcode, product, idx, ingredients, lookups, calls, client,
                   lookupVars, scoreVars, clientVars, remoteVars>>

----------------------------------------------------------------------------
\* main.py: GET /analyze, over the Open Food Facts catalog

\* a or b
py_or(a, b) ==
    IF a # None /\ a # "" THEN a ELSE b

\* What `await client.get(url)` does within its timeout of 20: it raises
\* (connection error, timeout), or returns a response with a status code and
\* a body, which is a JSON object or is not.
FieldValues ==
    {"", "Water, Glycerin"}
NameValues ==
    {"", "Hand Cream"}
ProductDocs ==
    UNION {{n @@ t : n \in Objects({"product_name", "product_name_en"}, NameValues)} :
           t \in Objects({"ingredients_text", "ingredients_text_en"}, FieldValues)}
UpstreamDocs ==
    UNION {{[status |-> s] @@ p : s \in {0, 1}} \cup {p} :
           p \in {<<>>} \cup {[product |-> d] : d \in ProductDocs}}
FetchRaises ==
    [kind |-> "raises", status_code |-> 0, json_ok |-> FALSE, json |-> <<>>]
FetchResponse(status_code, json_ok, doc) ==
    [kind |-> "response", status_code |-> status_code, json_ok |-> json_ok, json |-> doc]
UpstreamResponses ==
    {FetchRaises}
    \cup {FetchResponse(s, FALSE, <<>>) : s \in {200, 404, 500, 503}}
    \cup {FetchResponse(200, TRUE, doc) : doc \in UpstreamDocs}

\* How analyze_ingredients_with_openai ends: it returns an analysis, or
\* raises an HTTPException, or raises another exception.
Analysis ==
    [productName |-> "Hand Cream",
     ingredients |-> <<[name |-> "Water", risk |-> "low", details |-> "Solvent."]>>,
     overallScore |-> "A"]
EnrichmentOutcomes ==
    {Returns(Analysis),
     HTTPException(500, "OPENAI_API_KEY is not configured."),
     HTTPException(502, "OpenAI analysis failed."),
     HTTPException(500, "Empty response from OpenAI."),
     Raises("ValueError")}

\* the response to a request whose handler raised
RemoteFails(outcome) ==
    /\ r_status' = IF outcome.how = "HTTPException" THEN outcome.status_code ELSE 500
    /\ r_body' = ErrorBody(IF outcome.how = "HTTPException" THEN outcome.detail
                           ELSE "Internal Server Error")
    /\ r_pc' = "done"

\* fetch_product_from_open_food_facts from the completion of its GET on
fetch_product_result(upstream) ==
    IF upstream.kind = "raises"
    THEN Raises("httpx.TransportError")
    ELSE IF upstream.status_code # 200
    THEN HTTPException(502, "Failed to reach Open Food Facts.")
    ELSE IF ~upstream.json_ok
    THEN Raises("JSONDecodeError")
    ELSE Returns(upstream.json)

\* main.py:273 and 263-265: the GET is sent
FetchIssue ==
    /\ r_pc = "start"
    /\ r_fetches' = r_fetches + 1
    /\ r_pc' = "await_fetch"
    /\ UNCHANGED <<r_barcode, r_upstream, r_enrich_calls, r_outcome, r_status, r_body,
                   client, lookupVars, scoreVars, clientVars, requestVars>>

\* the try of main.py:293-298 around an outcome of the enrichment call
analyze_try(outcome) ==
    IF outcome.how = "raises"
    THEN HTTPException(500, "Failed to analyze ingredients.")
    ELSE outcome

\* `not ingredients_text`: None and "" are falsy
\* Variant: only None counts as no text (C6 must tell it apart)
not_text_none_only(text) ==
    text = None
not_text(text) ==
    text = None \/ text = ""

\* main.py:280
ingredients_text_of(prod) ==
    py_or(DictGet(prod, "ingredients_text", None), DictGet(prod, "ingredients_text_en", None))

\* main.py:266-268 and 275-294: the GET completes, the handler runs to its
\* return or to the await of the enrichment call
FetchComplete(upstream) ==
    /\ r_pc = "await_fetch"
    /\ r_upstream' = upstream
    /\ LET fetched == fetch_product_result(upstream)
           product_response == fetched.value
           prod == DictGet(product_response, "product", <<>>)
           product_name == py_or(DictGet(prod, "product_name", None),
                                 py_or(DictGet(prod, "product_name_en", None), "Unknown product"))
           ingredients_text == ingredients_text_of(prod)
       IN IF fetched.how # "returns"
          THEN RemoteFails(fetched) /\ UNCHANGED r_enrich_calls
          ELSE IF "status" \notin DOMAIN product_response \/ product_response.status # 1
          THEN /\ RemoteFails(HTTPException(404, "Product not found in Open Food Facts."))
               /\ UNCHANGED r_enrich_calls
          ELSE IF not_text(ingredients_text)
          THEN /\ r_status' = 200
               /\ r_body' = [productName |-> product_name,
                             ingredients |-> <<>>,
                             overallScore |-> "N/A",
                             message |-> "Ingredients not available for this product."]
               /\ r_pc' = "done"
               /\ UNCHANGED r_enrich_calls
          ELSE /\ r_enrich_calls' = r_enrich_calls + 1
               /\ r_pc' = "await_enrich"
               /\ UNCHANGED <<r_status, r_body>>
    /\ UNCHANGED <<r_barcode, r_fetches, r_outcome,
                   client, lookupVars, scoreVars, clientVars, requestVars>>

\* main.py:293-300: analyze_ingredients_with_openai ends
EnrichComplete(outcome) ==
    /\ r_pc = "await_enrich"
    /\ r_outcome' = outcome
    /\ LET tried == analyze_try(outcome)
       IN IF tried.how = "returns"
          THEN r_status' = 200 /\ r_body' = tried.value /\ r_pc' = "done"
          ELSE RemoteFails(tried)
    /\ UNCHANGED <<r_barcode, r_fetches, r_upstream, r_enrich_calls,
                   client, lookupVars, scoreVars, clientVars, requestVars>>

ClientIdle ==
    fn_name = "" /\ fn_arg = "" /\ fn_pc = "idle" /\ fn_reply = <<>> /\ fn_ret = <<>>
RequestIdle ==
    /\ barcode = "" /\ pc = "idle" /\ product = <<>> /\ idx = 0 /\ ingredients = <<>>
    /\ lookups = 0 /\ calls = <<>> /\ call_results = <<>> /\ status = 0 /\ body = <<>>
RemoteIdle ==
    /\ r_barcode = "" /\ r_pc = "idle" /\ r_fetches = 0 /\ r_upstream = <<>>
    /\ r_enrich_calls = 0 /\ r_outcome = <<>> /\ r_status = 0 /\ r_body = <<>>

InitLookup ==
    /\ inci_name \in RawNames /\ lookup_ret = <<>> /\ lookup_pc = "call"
    /\ ScoreIdle /\ client = FALSE /\ ClientIdle /\ RequestIdle /\ RemoteIdle
NextLookup ==
    LookupCall
SpecLookup ==
    InitLookup /\ [][NextLookup]_vars

InitScore ==
    /\ score_items \in ScoreLists /\ score_ret = <<>> /\ score_pc = "call"
    /\ LookupIdle /\ client = FALSE /\ ClientIdle /\ RequestIdle /\ RemoteIdle
NextScore ==
    ScoreCall
SpecScore ==
    InitScore /\ [][NextScore]_vars
InitClient ==
    /\ client \in BOOLEAN /\ fn_name \in FnNames /\ fn_arg \in FnArgs(fn_name)
    /\ fn_pc = "entry" /\ fn_reply = <<>> /\ fn_ret = <<>>
    /\ LookupIdle /\ ScoreIdle /\ RequestIdle /\ RemoteIdle
NextClient ==
    \/ FnEnter
    \/ \E reply \in FnReplies(fn_name) : FnComplete(reply)
SpecClient ==
    InitClient /\ [][NextClient]_vars

Init ==
    /\ client \in BOOLEAN /\ barcode \in Barcodes /\ pc = "start"
    /\ product = <<>> /\ idx = 0 /\ ingredients = <<>> /\ lookups = 0
    /\ calls = <<>> /\ call_results = <<>> /\ status = 0 /\ body = <<>>
    /\ LookupIdle /\ ScoreIdle /\ ClientIdle /\ RemoteIdle
Next ==
    \/ ResolveProduct
    \/ IngredientFallback
    \/ IngredientCallIssue
    \/ \E reply \in IngredientReplies : IngredientCallComplete(reply)
    \/ OverallFallback
    \/ ProductCallIssue
    \/ \E reply \in ProductReplies : ProductCallComplete(reply)
Spec ==
    Init /\ [][Next]_vars

InitRemote ==
    /\ r_barcode \in Barcodes /\ r_pc = "start" /\ r_fetches = 0 /\ r_upstream = <<>>
    /\ r_enrich_calls = 0 /\ r_outcome = <<>> /\ r_status = 0 /\ r_body = <<>>
    /\ client = FALSE /\ LookupIdle /\ ScoreIdle /\ ClientIdle /\ RequestIdle
NextRemote ==
    \/ FetchIssue
    \/ \E upstream \in UpstreamResponses : FetchComplete(upstream)
    \/ \E outcome \in EnrichmentOutcomes : EnrichComplete(outcome)
SpecRemote ==
    InitRemote /\ [][NextRemote]_vars

\* the enrichment functions called on their own, or a request to GET /analyze
InitEnrich ==
    \/ InitClient
    \/ InitRemote
NextEnrich ==
    \/ FnEnter
    \/ \E reply \in FnReplies(fn_name) : FnComplete(reply)
    \/ FetchIssue
    \/ \E upstream \in UpstreamResponses : FetchComplete(upstream)
    \/ \E outcome \in EnrichmentOutcomes : EnrichComplete(outcome)
SpecEnrich ==
    InitEnrich /\ [][NextEnrich]_vars

----------------------------------------------------------------------------
\* Properties of GET /cosmetics/analyze (Spec)

InCatalog ==
    barcode \in DOMAIN PRODUCT_CATALOG
declared ==
    PRODUCT_CATALOG[barcode].ingredients_inci
IsPrefix(s, t) ==
    Len(s) <= Len(t) /\ \A i \in 1..Len(s) : s[i] = t[i]

\* C1: for a barcode of the catalog, the ingredients array of every 200
\* response names the product's declared ingredients, normalized: as many
\* entries, in the declared order, each declared identifier exactly once,
\* with enrichment configured or not.
C1_IngredientsFollowDeclaredList ==
    (InCatalog /\ status = 200) =>
        /\ Len(body.ingredients) = Len(declared)
        /\ \A i \in 1..Len(declared) :
              /\ body.ingredients[i].inciName = normalize_inci(declared[i])
              /\ Cardinality({j \in 1..Len(body.ingredients) :
                    body.ingredients[j].inciName = normalize_inci(declared[i])}) = 1
C1_Witness ==
    /\ InCatalog /\ status = 200 /\ client
    /\ Len(body.ingredients) = 5

\* C2: for a barcode the catalog does not hold the request ends in 404, with
\* no ingredient looked up and no enrichment call sent, enrichment configured
\* or not.
C2_AbsentBarcodeEndsIn404 ==
    ~InCatalog =>
        /\ lookups = 0 /\ calls = <<>> /\ call_results = <<>>
        /\ pc \in {"start", "done"}
        /\ pc = "start" => ENABLED ResolveProduct
        /\ pc = "done" => status = 404
C2_Witness ==
    ~InCatalog /\ client /\ pc = "done" /\ status = 404

\* C3: with enrichment unconfigured no outbound call is ever sent, every
\* aiSummary is fallback_summary of the ingredient's record, the overall
\* score and summary are fallback_overall of the assembled list, and a
\* request for a barcode of the catalog never waits on a call (it is at a
\* step that runs, or done) and ends in 200.
C3_UnconfiguredIsDeterministic ==
    ~client =>
        /\ calls = <<>> /\ call_results = <<>>
        /\ (InCatalog /\ pc # "done") => pc \in {"start", "loop"}
        /\ (InCatalog /\ pc = "done") => status = 200
        /\ status = 200 =>
              /\ \A i \in 1..Len(body.ingredients) :
                    body.ingredients[i].aiSummary
                        = fallback_summary(lookup_ingredient(declared[i]))
              /\ body.overallScore = fallback_overall(body.ingredients).overallScore
              /\ body.overallSummary = fallback_overall(body.ingredients).overallSummary
C3_Witness ==
    /\ ~client /\ status = 200 /\ Len(body.ingredients) = 4
    /\ body.overallScore = "A"

\* C9: in every 200 response the overall score is one of A, B, C, D, whether
\* it comes from fallback_overall or from summarize_product, whatever JSON
\* object the model returned, and the disclaimer is DISCLAIMER_TEXT.
C9_ScoreIsALetterAToD ==
    status = 200 =>
        /\ body.overallScore \in {"A", "B", "C", "D"}
        /\ body.disclaimer = DISCLAIMER_TEXT

\* the calls a request with enrichment configured sends when none fails
ExpectedCalls ==
    [i \in 1..Len(declared) |-> IngredientCall(declared[i])]
    \o <<ProductCall(PRODUCT_CATALOG[barcode].product_name,
                     [i \in 1..Len(declared) |-> [inciName |-> normalize_inci(declared[i])]])>>
CallFailed(k) ==
    call_results[k].how # "returns"
ErrorStatus(outcome) ==
    IF outcome.how = "HTTPException" THEN outcome.status_code ELSE 500

\* With enrichment configured the calls sent are a prefix of
\* [ingredient(i1), ..., ingredient(in), product]; a call is sent only when
\* every earlier one has completed.
C10_SequentialPrefix ==
    /\ IsPrefix(calls, ExpectedCalls)
    /\ Len(call_results) <= Len(calls)
    /\ Len(calls) <= Len(call_results) + 1
    /\ Len(calls) = Len(call_results) + 1 <=> pc \in {"await_ingredient", "await_product"}
\* After the first failed call nothing more is sent, nothing is retried, and
\* the request has ended in that call's error status.
C10_FirstFailureEndsRequest ==
    \A k \in 1..Len(call_results) :
        CallFailed(k) =>
            /\ k = Len(call_results) /\ Len(calls) = k
            /\ pc = "done" /\ status = ErrorStatus(call_results[k])

\* C10, as claimed: ... and the sequence is the full n+1 calls iff no call
\* failed.
C10_FullSequenceIffNoCallFailed ==
    (client /\ InCatalog) =>
        /\ C10_SequentialPrefix
        /\ C10_FirstFailureEndsRequest
        /\ pc = "done" =>
              (Len(calls) = Len(declared) + 1
                  <=> \A k \in 1..Len(call_results) : ~CallFailed(k))

\* C10, amended: the calls of a request with enrichment configured are a
\* prefix of [ingredient(i1), ..., ingredient(in), product], each sent only
\* when the one before has completed; the sequence is the full n+1 calls iff
\* none of the n ingredient calls failed, and the request ends in 200 iff
\* none of the n+1 calls failed; after the first failed call nothing more is
\* sent, nothing is retried, and the request ends in that call's error status.
C10_FullSequenceIffNoIngredientCallFailed ==
    (client /\ InCatalog) =>
        /\ C10_SequentialPrefix
        /\ C10_FirstFailureEndsRequest
        /\ pc = "done" =>
              /\ Len(calls) = Len(declared) + 1
                    <=> \A k \in 1..Len(call_results) : k <= Len(declared) => ~CallFailed(k)
              /\ status = 200
                    <=> /\ Len(call_results) = Len(declared) + 1
                        /\ \A k \in 1..Len(call_results) : ~CallFailed(k)
C10_Witness ==
    /\ client /\ InCatalog /\ pc = "done"
    /\ Len(calls) = 3 /\ Len(call_results) = 3
    /\ CallFailed(3) /\ status = 502

----------------------------------------------------------------------------
\* Properties of fallback_overall (SpecScore)

DocumentedLevels ==
    {RISK_LOW, RISK_MEDIUM, RISK_HIGH, RISK_UNKNOWN}
DocumentedWeight(level) ==
    CASE level = RISK_LOW -> 1
      [] level = RISK_MEDIUM -> 2
      [] level = RISK_HIGH -> 3
      [] level = RISK_UNKNOWN -> 2
RECURSIVE DocumentedSum(_)
DocumentedSum(items) ==
    IF items = <<>> THEN 0
    ELSE DocumentedWeight(Head(items).riskLevel) + DocumentedSum(Tail(items))
AllAt(items, level) ==
    \A i \in 1..Len(items) : items[i].riskLevel = level

\* C4: over the levels low = 1, medium = 2, high = 3, unknown = 2,
\* fallback_overall scores the empty list "B" and any other list "C" iff
\* sum >= 2.5 n, "B" iff 1.8 n <= sum < 2.5 n, "A" iff sum < 1.8 n (an
\* average of exactly 1.8 is "B", of exactly 2.5 is "C"); so all low is "A"
\* and all high is "C".
C4_ScoreThresholds ==
    (score_pc = "returned" /\ \A i \in 1..Len(score_items) :
                                 score_items[i].riskLevel \in DocumentedLevels) =>
        LET n == Len(score_items)
            sum == DocumentedSum(score_items)
            score == score_ret.overallScore
        IN /\ n = 0 => score = "B"
           /\ n > 0 =>
                /\ score = "C" <=> 10 * sum >= 25 * n
                /\ score = "B" <=> (10 * sum >= 18 * n /\ 10 * sum < 25 * n)
                /\ score = "A" <=> 10 * sum < 18 * n
                /\ AllAt(score_items, RISK_LOW) => score = "A"
                /\ AllAt(score_items, RISK_HIGH) => score = "C"
C4_Witness ==
    /\ score_pc = "returned" /\ Len(score_items) = 5
    /\ \A i \in 1..5 : score_items[i].riskLevel \in DocumentedLevels
    /\ 10 * DocumentedSum(score_items) = 18 * 5
    /\ score_ret.overallScore = "B"

----------------------------------------------------------------------------
\* Properties of lookup_ingredient (SpecLookup)

\* other spellings of a raw name that normalize to what it normalizes to
Respellings(raw) ==
    {str_lower(raw), str_upper(raw), str_strip(raw), normalize_inci(raw),
     <<" ">> \o raw, raw \o <<"\t">>, <<"\n", " ">> \o raw \o <<" ">>}

\* C7: lookup_ingredient returns for every raw name: when the normalized
\* name (trimmed, uppercased) is no key of the knowledge base, function and
\* risk level "unknown" and the not-found marker as the only concern; when
\* it is a key, that key's attributes; so raw names with one normalized form
\* get identical records.
C7_LookupByNormalizedName ==
    lookup_pc = "returned" =>
        LET normalized == normalize_inci(inci_name)
        IN /\ lookup_ret.inci_name = normalized
           /\ normalized \notin DOMAIN INGREDIENT_DB =>
                /\ lookup_ret.function = "unknown"
                /\ lookup_ret.risk_level = RISK_UNKNOWN
                /\ lookup_ret.concerns = <<"Not found in knowledge base">>
           /\ normalized \in DOMAIN INGREDIENT_DB =>
                /\ lookup_ret.function = INGREDIENT_DB[normalized].function
                /\ lookup_ret.origin = INGREDIENT_DB[normalized].origin
                /\ lookup_ret.risk_level = INGREDIENT_DB[normalized].risk_level
                /\ lookup_ret.concerns = INGREDIENT_DB[normalized].concerns
           /\ \A other \in Respellings(inci_name) :
                /\ normalize_inci(other) = normalized
                /\ lookup_ingredient(other) = lookup_ret
C7_Witness ==
    /\ lookup_pc = "returned"
    /\ inci_name = <<" ", "a", "q", "U", "a">>
    /\ lookup_ret.inci_name = INCI_AQUA /\ lookup_ret.function = "solvent"

----------------------------------------------------------------------------
\* Properties of GET /analyze (SpecRemote) and of the error path (SpecEnrich)

\* C5: when the catalog fetch is unreachable, a status other than 200 or a
\* failure of the connection or the timeout, the request ends in 502, never
\* in 500, and analyze_ingredients_with_openai is not called.
C5_UnreachableCatalogEndsIn502 ==
    (r_pc = "done" /\ (r_upstream.kind = "raises" \/ r_upstream.status_code # 200)) =>
        r_status = 502 /\ r_enrich_calls = 0

upstream_doc ==
    r_upstream.json
upstream_product ==
    DictGet(upstream_doc, "product", <<>>)
UpstreamFound ==
    "status" \in DOMAIN upstream_doc /\ upstream_doc.status = 1
NoIngredientsText ==
    \A f \in {"ingredients_text", "ingredients_text_en"} :
        f \notin DOMAIN upstream_product \/ upstream_product[f] = ""

\* C6: when the upstream reports the product found (status = 1) and neither
\* ingredients_text nor ingredients_text_en is present (or both are empty),
\* the request ends in 200 with no ingredients, score "N/A" and a non-empty
\* message, with no enrichment call; when the status is not 1 it ends in 404.
C6_NoIngredientsTextIs200 ==
    (r_pc = "done" /\ r_upstream.kind = "response"
        /\ r_upstream.status_code = 200 /\ r_upstream.json_ok) =>
        /\ (UpstreamFound /\ NoIngredientsText) =>
              /\ r_status = 200 /\ r_enrich_calls = 0
              /\ r_body.ingredients = <<>> /\ r_body.overallScore = "N/A"
              /\ "message" \in DOMAIN r_body /\ r_body.message # ""
        /\ ~UpstreamFound => r_status = 404 /\ r_enrich_calls = 0
C6_Witness ==
    /\ r_pc = "done" /\ r_upstream.kind = "response" /\ r_upstream.json_ok
    /\ UpstreamFound /\ NoIngredientsText
    /\ "ingredients_text" \in DOMAIN upstream_product
    /\ r_status = 200 /\ r_body.overallScore = "N/A"

\* C8: an enrichment function called with no client ends in 500 without a
\* call; a failure of the model call ends in 502; an empty reply and a reply
\* that is no JSON end in 500; GET /analyze answers an HTTPException of the
\* enrichment call with its own status and any other exception with 500.
C8_EnrichmentFailureStatus ==
    /\ fn_pc = "done" =>
          /\ ~client =>
                /\ fn_reply = <<>>
                /\ fn_ret.how = "HTTPException" /\ fn_ret.status_code = 500
          /\ client =>
                /\ fn_reply.kind = "raises" =>
                      fn_ret.how = "HTTPException" /\ fn_ret.status_code = 502
                /\ fn_reply.kind \in {"empty", "not_json"} =>
                      fn_ret.how = "HTTPException" /\ fn_ret.status_code = 500
    /\ (r_pc = "done" /\ r_enrich_calls = 1) =>
          /\ r_outcome.how = "HTTPException" =>
                r_status = r_outcome.status_code /\ r_body.detail = r_outcome.detail
          /\ r_outcome.how = "raises" => r_status = 500
C8_Witness ==
    /\ fn_pc = "done" /\ client /\ fn_name = "summarize_ingredient"
    /\ fn_reply.kind = "raises" /\ fn_ret.status_code = 502

====
